---- MODULE Spec2Model ----
(***************************************************************************)
(* The contact-form route of MaomaoQWQ-gamer/mao                           *)
(* (src/app/api/contact/route.js, and its variant without CORS,            *)
(* src/unnamed/part_000) as a state machine.                               *)
(*                                                                         *)
(* The module-level state of the route is the RATE_LIMIT map and the       *)
(* process environment.  Each invocation of an exported handler is a       *)
(* process p; an async handler runs without interruption up to its next    *)
(* await (JavaScript's run-to-completion), so there is one action per      *)
(* synchronous segment of POST:                                            *)
(*    POST_begin     lines 12-38  up to `await req.json()`                 *)
(*    POST_json      lines 38-60  up to the await of the Turnstile fetch   *)
(*    POST_verified  lines 60-102 up to the await of the Discord fetch     *)
(*    POST_relayed   lines 102-109 up to `await discordRes.text()`         *)
(*    POST_errtext   lines 105-106, discordRes.text() resolved             *)
(*    POST_errtext_throws  lines 105, 111-114, discordRes.text() rejected  *)
(* GET and OPTIONS are synchronous and one action each.                    *)
(* Strings the code transforms are sequences of one-character strings.     *)
(* The user-agent string enters only the text sent to Discord and is left  *)
(* out.  rlLog and stages record what happened; the code does not read     *)
(* them.                                                                   *)
(*                                                                         *)
(* Spec is the whole machine.  Three specifications restrict its inputs:   *)
(*    SpecLimiter     two callers and the clock, requests one at a time    *)
(*    SpecConcurrent  one caller, two invocations interleaving at awaits   *)
(*    SpecFlow        every deployment, body and outcome, clock at rest    *)
(***************************************************************************)
EXTENDS Integers, Sequences, FiniteSets, TLC

VARIABLES
    variant,      \* which source file is deployed: "route.js" or "part_000"
    env,          \* process.env: FRONTEND_ORIGIN, DISCORD_BOT_TOKEN, DISCORD_CHANNEL_ID
    RATE_LIMIT,   \* the module-level Map: caller ip -> sequence of timestamps
    clock,        \* what Date.now() returns
    ticks,        \* number of clock advances so far (bounded)
    nreq,         \* number of requests received so far (bounded)
    pc,           \* per invocation: the await it is suspended at
    contentType,  \* per invocation: const contentType
    ip,           \* per invocation: const ip
    body,         \* per invocation: what req.json() produced
    calls,        \* per invocation: the outbound fetches issued, in order
    stages,       \* per invocation: the stages of the handler run so far, in order
    tsRes,        \* per invocation: const tsRes, the Turnstile answer
    cleanMsg,     \* per invocation: let cleanMsg, once the sanitizer has run
    discordRes,   \* per invocation: const discordRes, the Discord response
    errText,      \* per invocation: what discordRes.text() produced
    logged,       \* per invocation: what it wrote with console.error
    resp,         \* per invocation: the response returned
    rlLog         \* history of the rate limiter's decisions, in order

vars == <<variant, env, RATE_LIMIT, clock, ticks, nreq, pc, contentType, ip,
          body, calls, stages, tsRes, cleanMsg, discordRes, errText, logged,
          resp, rlLog>>

----------------------------------------------------------------------------
(* Program constants *)

WINDOW_MS == 10000

MAX_REQUESTS == 3

MSG_CAP == 500

(* Bounds of the model *)

MaxTicks == 2

MaxReqs == 5

Procs == {"p1", "p2"}

TickSteps == {1, WINDOW_MS - 1, WINDOW_MS}

----------------------------------------------------------------------------
(* Strings and JavaScript values *)

Absent == "<absent>"

Sentinel == <<"0", ".", "0", ".", "0", ".", "0">>

MARKER == <<" ", ".", ".", ".", "[", "t", "r", "u", "n", "c", "a", "t", "e", "d", "]">>

IsSpace(c) == c = " "

RECURSIVE TrimStart(_)
TrimStart(s) ==
    IF s # <<>> /\ IsSpace(Head(s)) THEN TrimStart(Tail(s)) ELSE s

RECURSIVE TrimEnd(_)
TrimEnd(s) ==
    IF s # <<>> /\ IsSpace(s[Len(s)]) THEN TrimEnd(SubSeq(s, 1, Len(s) - 1)) ELSE s

Trim(s) == TrimEnd(TrimStart(s))

\* s.split(",")[0]
FirstToken(s) ==
    LET commas == {i \in 1..Len(s) : s[i] = ","}
    IN  IF commas = {} THEN s
        ELSE SubSeq(s, 1, (CHOOSE i \in commas : \A j \in commas : i <= j) - 1)

Undefined == [type |-> "undefined", str |-> <<>>, num |-> 0]

Str(s) == [type |-> "string", str |-> s, num |-> 0]

Num(n) == [type |-> "number", str |-> <<>>, num |-> n]

\* JavaScript truthiness of the values a JSON field can take here
Truthy(v) ==
    \/ v.type = "string" /\ v.str # <<>>
    \/ v.type = "number" /\ v.num # 0

----------------------------------------------------------------------------
(* Responses *)

HeaderNames == {"Access-Control-Allow-Origin", "Access-Control-Allow-Methods",
                "Access-Control-Allow-Headers"}

NoHeaders == [h \in HeaderNames |-> Absent]

NoResponse == [status |-> 0, type |-> "none", ok |-> FALSE, error |-> Absent,
               headers |-> NoHeaders]

\* NextResponse.json({ ok: false, error }, { status })
JsonError(error, status) ==
    [status |-> status, type |-> "json", ok |-> FALSE, error |-> error,
     headers |-> NoHeaders]

\* NextResponse.json({ ok: true })
JsonOk ==
    [status |-> 200, type |-> "json", ok |-> TRUE, error |-> Absent,
     headers |-> NoHeaders]

FRONTEND_ORIGIN == IF env.FRONTEND_ORIGIN = "" THEN "*" ELSE env.FRONTEND_ORIGIN

CorsHeaders ==
    [h \in HeaderNames |->
        CASE h = "Access-Control-Allow-Origin"  -> FRONTEND_ORIGIN
          [] h = "Access-Control-Allow-Methods" -> "POST, OPTIONS"
          [] h = "Access-Control-Allow-Headers" -> "Content-Type"]

withCors(response) == [response EXCEPT !.headers = CorsHeaders]

\* route.js wraps every returned response in withCors; part_000 returns it bare
Return(response) == IF variant = "route.js" THEN withCors(response) ELSE response

InvalidContentType == Return(JsonError("Invalid content type", 400))

TooManyRequests == Return(JsonError("Too many requests", 429))

InvalidJSON == Return(JsonError("Invalid JSON", 400))

MissingFields == Return(JsonError("Missing fields", 400))

BotDetected == Return(JsonError("Bot detected", 403))

EmptyMessage == Return(JsonError("Empty message", 400))

ServerMisconfig == Return(JsonError("Server misconfig", 500))

\* variant of DiscordError: the relay's error body is passed on to the caller
DiscordError_echo(text) == Return(JsonError(text, 502))

DiscordError(text) == Return(JsonError("Discord error", 502))

Success == Return(JsonOk)

\* variant of ServerError: no catch, the exception leaves the handler and no
\* response is built
ServerError_escapes == NoResponse

\* variant of ServerError: the catch-all returns the response bare
ServerError_bare == JsonError("Server error", 500)

ServerError == Return(JsonError("Server error", 500))

MethodNotAllowed == Return(JsonError("Method not allowed", 405))

OptionsResponse ==
    [status |-> 204, type |-> "null", ok |-> FALSE, error |-> Absent,
     headers |-> CorsHeaders]

----------------------------------------------------------------------------
(* The pure steps of POST *)

\* contentType.includes("application/json"), the header value as a list of parts
\* variant of IsJsonContentType: any content type will do, if there is one
IsJsonContentType_present(ct) == Len(ct) > 0

\* contentType.includes("application/json")
IsJsonContentType(ct) ==
    \E i \in 1..Len(ct) : ct[i] = "application/json"

\* req.headers.get("x-forwarded-for")?.split(",")[0]?.trim() || "0.0.0.0"
\* (an absent header and an empty one give the same result: both are <<>> here)
CallerIp(xff) ==
    LET first == Trim(FirstToken(xff))
    IN  IF first = <<>> THEN Sentinel ELSE first

\* variant of History: the stored entry is not found
History_miss(callerIp) == <<>>

\* RATE_LIMIT.get(ip) || []
History(callerIp) ==
    IF callerIp \in DOMAIN RATE_LIMIT THEN RATE_LIMIT[callerIp] ELSE <<>>

\* variant of InWindow: a timestamp exactly WINDOW_MS old still counts
InWindow_inclusive(now, t) == now - t <= WINDOW_MS

InWindow(now, t) == now - t < WINDOW_MS

\* variant of Recent: the stored history is used unfiltered
Recent_unfiltered(history, now) == history

\* history.filter((t) => now - t < WINDOW_MS)
Recent(history, now) == SelectSeq(history, LAMBDA t : InWindow(now, t))

\* variant of Limited: one request too many is admitted
Limited_late(recent) == Len(recent) > MAX_REQUESTS

\* variant of Limited: the last allowed request is refused
Limited_early(recent) == Len(recent) >= MAX_REQUESTS - 1

\* recent.length >= MAX_REQUESTS
Limited(recent) == Len(recent) >= MAX_REQUESTS

\* variant of Pushed: the admitted request leaves no timestamp
Pushed_nothing(recent, now) == recent

\* recent.push(now)
Pushed(recent, now) == Append(recent, now)

\* RATE_LIMIT.set(ip, recent)
MapSet(callerIp, recent) ==
    [k \in DOMAIN RATE_LIMIT \cup {callerIp} |->
        IF k = callerIp THEN recent ELSE RATE_LIMIT[k]]

\* const { message, turnstileToken } = body || {}
Field(b, name) ==
    IF b.type = "object" THEN b[name] ELSE Undefined

\* variant of FieldsMissing: the token is not looked at
FieldsMissing_noToken(message, turnstileToken) ==
    \/ ~Truthy(message)
    \/ message.type # "string"

\* !message || typeof message !== "string" || !turnstileToken
FieldsMissing(message, turnstileToken) ==
    \/ ~Truthy(message)
    \/ message.type # "string"
    \/ ~Truthy(turnstileToken)

\* variant of VerificationFailed: the answer is not looked at
VerificationFailed_never(res) == FALSE

\* !tsRes.success
VerificationFailed(res) == ~res.success

\* the places of the text where the pattern <[^>]*> matches: a "<" that has
\* a ">" somewhere after it
Opens(s) == {i \in 1..Len(s) : s[i] = "<" /\ \E j \in (i+1)..Len(s) : s[j] = ">"}

\* the leftmost match starts at the first such "<" ...
FirstOpen(s) == CHOOSE i \in Opens(s) : \A m \in Opens(s) : i <= m

\* ... and ends at the first ">" after it
FirstClose(s) ==
    CHOOSE j \in (FirstOpen(s)+1)..Len(s) :
        s[j] = ">" /\ \A m \in (FirstOpen(s)+1)..(j-1) : s[m] # ">"

\* variant of StripTags: the greedy pattern <.*>, from the first "<" that has
\* a ">" after it to the last ">" of the text
StripTags_greedy(s) ==
    IF Opens(s) = {} THEN s
    ELSE LET j == CHOOSE k \in 1..Len(s) :
                      s[k] = ">" /\ \A m \in (k+1)..Len(s) : s[m] # ">"
         IN  SubSeq(s, 1, FirstOpen(s) - 1) \o SubSeq(s, j + 1, Len(s))

\* variant of StripTags: replace without the g flag, the first tag only
StripTags_first(s) ==
    IF Opens(s) = {} THEN s
    ELSE SubSeq(s, 1, FirstOpen(s) - 1) \o SubSeq(s, FirstClose(s) + 1, Len(s))

\* cleanMsg.replace(/<[^>]*>/g, ""): the leftmost match is removed and the
\* search goes on behind it, to the end of the text
RECURSIVE StripTags(_)
StripTags(s) ==
    IF Opens(s) = {} THEN s
    ELSE SubSeq(s, 1, FirstOpen(s) - 1)
             \o StripTags(SubSeq(s, FirstClose(s) + 1, Len(s)))

\* variant of Cap: a text of exactly 500 characters is shortened as well
Cap_inclusive(s) == IF Len(s) >= MSG_CAP THEN SubSeq(s, 1, MSG_CAP) \o MARKER ELSE s

\* if (cleanMsg.length > 500) cleanMsg = cleanMsg.slice(0, 500) + " ...[truncated]"
Cap(s) == IF Len(s) > MSG_CAP THEN SubSeq(s, 1, MSG_CAP) \o MARKER ELSE s

\* lines 67-71
CleanMsg(message) == Cap(StripTags(Trim(message)))

\* variant of EnvMissing: the channel id is not looked at
EnvMissing_tokenOnly == env.DISCORD_BOT_TOKEN = ""

\* !discordToken || !channelId
EnvMissing == env.DISCORD_BOT_TOKEN = "" \/ env.DISCORD_CHANNEL_ID = ""

\* variant of Verdict: the environment is looked at first
Verdict_envFirst(res, clean) ==
    IF EnvMissing THEN "misconfig"
    ELSE IF VerificationFailed(res) THEN "bot"
    ELSE IF Len(clean) = 0 THEN "empty"
    ELSE "relay"

\* variant of Verdict: the empty-message check comes before the look at tsRes
Verdict_sanitizeFirst(res, clean) ==
    IF Len(clean) = 0 THEN "empty"
    ELSE IF VerificationFailed(res) THEN "bot"
    ELSE IF EnvMissing THEN "misconfig"
    ELSE "relay"

\* lines 62-84: what follows a settled Turnstile answer, in the code's order
Verdict(res, clean) ==
    IF VerificationFailed(res) THEN "bot"
    ELSE IF Len(clean) = 0 THEN "empty"
    ELSE IF EnvMissing THEN "misconfig"
    ELSE "relay"

----------------------------------------------------------------------------
(* Inputs *)

Envs ==
    { [FRONTEND_ORIGIN |-> "https://mao.example", DISCORD_BOT_TOKEN |-> "tok",
       DISCORD_CHANNEL_ID |-> "chan"],
      [FRONTEND_ORIGIN |-> "", DISCORD_BOT_TOKEN |-> "tok",
       DISCORD_CHANNEL_ID |-> "chan"],
      [FRONTEND_ORIGIN |-> "", DISCORD_BOT_TOKEN |-> "",
       DISCORD_CHANNEL_ID |-> "chan"],
      [FRONTEND_ORIGIN |-> "https://mao.example", DISCORD_BOT_TOKEN |-> "tok",
       DISCORD_CHANNEL_ID |-> ""] }

ContentTypes ==
    { <<>>, <<"text/plain">>, <<"application/json">>,
      <<"application/json", "charset=utf-8">> }

ForwardedFor == { <<>>, <<" ", "7", ",", "8">> }

Messages ==
    { <<"h", "i">>, <<" ">>, <<"<", "b", ">">>, <<" ", "<", "b", ">", "x", "<">>,
      <<"<", "b", ">", " ", "<", "i", ">">> }

JsonThrow == [type |-> "throw", message |-> Undefined, turnstileToken |-> Undefined]

JsonNull == [type |-> "null", message |-> Undefined, turnstileToken |-> Undefined]

Obj(m, t) == [type |-> "object", message |-> m, turnstileToken |-> t]

Token == Str(<<"t">>)

Bodies ==
    { JsonThrow, JsonNull, Obj(Undefined, Token), Obj(Num(5), Token),
      Obj(Str(<<>>), Token), Obj(Str(<<"h", "i">>), Undefined),
      Obj(Str(<<"h", "i">>), Str(<<>>)) }
    \cup { Obj(Str(m), Token) : m \in Messages }

NoBody == [type |-> "none", message |-> Undefined, turnstileToken |-> Undefined]

\* the Turnstile fetch: a JSON answer with or without success, or a rejection
TsOutcomes ==
    { [throws |-> FALSE, success |-> TRUE], [throws |-> FALSE, success |-> FALSE],
      [throws |-> TRUE, success |-> FALSE] }

\* the Discord fetch: a response that is ok or not, or a rejection
DiscordOutcomes ==
    { [throws |-> FALSE, ok |-> TRUE], [throws |-> FALSE, ok |-> FALSE],
      [throws |-> TRUE, ok |-> FALSE] }

\* discordRes.text(): the relay service's error body, or a rejection
ErrTexts == { "401: Unauthorized", "Unknown Channel" }

NoText == Absent

\* variant of fetch: a call is issued a second time
fetch_again(cs, call) == cs \o <<call, call>>

\* await fetch(...): one outbound call is issued
fetch(cs, call) == Append(cs, call)

\* no answer yet
Pending == [throws |-> FALSE, success |-> FALSE, ok |-> FALSE, settled |-> FALSE]

Settled(r) == [throws |-> r.throws,
               success |-> IF "success" \in DOMAIN r THEN r.success ELSE FALSE,
               ok |-> IF "ok" \in DOMAIN r THEN r.ok ELSE FALSE,
               settled |-> TRUE]

NoLog == [msg |-> Absent, detail |-> NoText]

\* let cleanMsg: not yet assigned, or assigned
NotCleaned == [done |-> FALSE, str |-> <<>>]

Cleaned(s) == [done |-> TRUE, str |-> s]

TurnstileCall(token, remoteip) ==
    [to |-> "turnstile", response |-> token, remoteip |-> remoteip, content |-> <<>>]

DiscordCall(clean, callerIp) ==
    [to |-> "discord", response |-> <<>>, remoteip |-> callerIp, content |-> clean]

----------------------------------------------------------------------------
(* The state machine *)

Init ==
    /\ variant \in {"route.js", "part_000"}
    /\ env \in Envs
    /\ RATE_LIMIT = << >>
    /\ clock = 0
    /\ ticks = 0
    /\ nreq = 0
    /\ pc = [p \in Procs |-> "idle"]
    /\ contentType = [p \in Procs |-> <<>>]
    /\ ip = [p \in Procs |-> Sentinel]
    /\ cleanMsg = [p \in Procs |-> NotCleaned]
    /\ body = [p \in Procs |-> NoBody]
    /\ calls = [p \in Procs |-> <<>>]
    /\ stages = [p \in Procs |-> <<>>]
    /\ tsRes = [p \in Procs |-> Pending]
    /\ discordRes = [p \in Procs |-> Pending]
    /\ errText = [p \in Procs |-> NoText]
    /\ logged = [p \in Procs |-> NoLog]
    /\ resp = [p \in Procs |-> NoResponse]
    /\ rlLog = <<>>

\* Date.now() advances between events
Tick(d) ==
    /\ ticks < MaxTicks
    /\ ticks' = ticks + 1
    /\ clock' = clock + d
    /\ UNCHANGED <<variant, env, RATE_LIMIT, nreq, pc, contentType, ip, body,
                   calls, stages, tsRes, cleanMsg, discordRes, errText, logged,
                   resp, rlLog>>

\* a request arrives and invocation p starts from fresh locals
Fresh(p) ==
    /\ pc[p] \in {"idle", "done"}
    /\ nreq < MaxReqs
    /\ nreq' = nreq + 1
    /\ body' = [body EXCEPT ![p] = NoBody]
    /\ tsRes' = [tsRes EXCEPT ![p] = Pending]
    /\ cleanMsg' = [cleanMsg EXCEPT ![p] = NotCleaned]
    /\ discordRes' = [discordRes EXCEPT ![p] = Pending]
    /\ errText' = [errText EXCEPT ![p] = NoText]
    /\ logged' = [logged EXCEPT ![p] = NoLog]

\* POST, lines 12-38: content type, caller ip, rate limit
POST_begin(p, ct, xff) ==
    /\ Fresh(p)
    /\ contentType' = [contentType EXCEPT ![p] = ct]
    /\ calls' = [calls EXCEPT ![p] = <<>>]
    /\ UNCHANGED <<variant, env, clock, ticks>>
    /\ IF ~IsJsonContentType(ct)
       THEN /\ resp' = [resp EXCEPT ![p] = InvalidContentType]
            /\ pc' = [pc EXCEPT ![p] = "done"]
            /\ stages' = [stages EXCEPT ![p] = <<"validate">>]
            /\ ip' = [ip EXCEPT ![p] = Sentinel]
            /\ UNCHANGED <<RATE_LIMIT, rlLog>>
       ELSE LET callerIp == CallerIp(xff)
                now == clock
                history == History(callerIp)
                recent == Recent(history, now)
            IN  /\ ip' = [ip EXCEPT ![p] = callerIp]
                /\ stages' = [stages EXCEPT ![p] = <<"validate", "ratelimit">>]
                /\ IF Limited(recent)
                   THEN /\ resp' = [resp EXCEPT ![p] = TooManyRequests]
                        /\ pc' = [pc EXCEPT ![p] = "done"]
                        /\ rlLog' = Append(rlLog, [ip |-> callerIp, now |-> now,
                                                   admitted |-> FALSE])
                        /\ UNCHANGED RATE_LIMIT
                   ELSE /\ RATE_LIMIT' = MapSet(callerIp, Pushed(recent, now))
                        /\ resp' = [resp EXCEPT ![p] = NoResponse]
                        /\ pc' = [pc EXCEPT ![p] = "json"]
                        /\ rlLog' = Append(rlLog, [ip |-> callerIp, now |-> now,
                                                   admitted |-> TRUE])

\* POST, lines 38-60: req.json() settles; fields; the Turnstile fetch is issued
POST_json(p, b) ==
    /\ pc[p] = "json"
    /\ body' = [body EXCEPT ![p] = b]
    /\ stages' = [stages EXCEPT ![p] = Append(@, "parse")]
    /\ UNCHANGED <<variant, env, RATE_LIMIT, clock, ticks, nreq, contentType, ip,
                   tsRes, cleanMsg, discordRes, errText, logged, rlLog>>
    /\ IF b.type = "throw"
       THEN /\ resp' = [resp EXCEPT ![p] = InvalidJSON]
            /\ pc' = [pc EXCEPT ![p] = "done"]
            /\ UNCHANGED calls
       ELSE LET message == Field(b, "message")
                turnstileToken == Field(b, "turnstileToken")
            IN  IF FieldsMissing(message, turnstileToken)
                THEN /\ resp' = [resp EXCEPT ![p] = MissingFields]
                     /\ pc' = [pc EXCEPT ![p] = "done"]
                     /\ UNCHANGED calls
                ELSE /\ calls' = [calls EXCEPT ![p] =
                                     fetch(@, TurnstileCall(turnstileToken.str, ip[p]))]
                     /\ pc' = [pc EXCEPT ![p] = "verify"]
                     /\ UNCHANGED resp

\* POST, lines 60-102: the Turnstile fetch settles; clean; env; the Discord
\* fetch is issued.  A rejected fetch lands in the catch of lines 111-114.
POST_verified(p, r) ==
    /\ pc[p] = "verify"
    /\ tsRes' = [tsRes EXCEPT ![p] = Settled(r)]
    /\ UNCHANGED <<variant, env, RATE_LIMIT, clock, ticks, nreq, contentType, ip,
                   body, discordRes, errText, rlLog>>
    /\ IF r.throws
       THEN /\ resp' = [resp EXCEPT ![p] = ServerError]
            /\ UNCHANGED cleanMsg
            /\ logged' = [logged EXCEPT ![p] =
                             [msg |-> "contact route error", detail |-> NoText]]
            /\ pc' = [pc EXCEPT ![p] = "done"]
            /\ stages' = [stages EXCEPT ![p] = Append(@, "verify")]
            /\ UNCHANGED calls
       ELSE LET clean == CleanMsg(body[p].message.str)
                v == Verdict(r, clean)
            IN  /\ cleanMsg' = [cleanMsg EXCEPT ![p] =
                                    IF v = "bot" THEN @ ELSE Cleaned(clean)]
                /\ stages' = [stages EXCEPT ![p] =
                                  IF v = "bot" THEN Append(@, "verify")
                                  ELSE @ \o <<"verify", "sanitize">>]
                /\ resp' = [resp EXCEPT ![p] =
                                CASE v = "bot" -> BotDetected
                                  [] v = "empty" -> EmptyMessage
                                  [] v = "misconfig" -> ServerMisconfig
                                  [] v = "relay" -> @]
                /\ logged' = [logged EXCEPT ![p] =
                                  IF v = "misconfig"
                                  THEN [msg |-> "Missing Discord env", detail |-> NoText]
                                  ELSE @]
                /\ calls' = [calls EXCEPT ![p] =
                                 IF v = "relay"
                                 THEN fetch(@, DiscordCall(clean, ip[p]))
                                 ELSE @]
                /\ pc' = [pc EXCEPT ![p] = IF v = "relay" THEN "relay" ELSE "done"]

\* POST, lines 102-109: the Discord fetch settles
POST_relayed(p, r) ==
    /\ pc[p] = "relay"
    /\ discordRes' = [discordRes EXCEPT ![p] = Settled(r)]
    /\ stages' = [stages EXCEPT ![p] = Append(@, "relay")]
    /\ UNCHANGED <<variant, env, RATE_LIMIT, clock, ticks, nreq, contentType, ip,
                   body, calls, tsRes, cleanMsg, errText, rlLog>>
    /\ IF r.throws
       THEN /\ resp' = [resp EXCEPT ![p] = ServerError]
            /\ logged' = [logged EXCEPT ![p] =
                             [msg |-> "contact route error", detail |-> NoText]]
            /\ pc' = [pc EXCEPT ![p] = "done"]
       ELSE IF ~r.ok
       THEN /\ pc' = [pc EXCEPT ![p] = "errtext"]
            /\ UNCHANGED <<resp, logged>>
       ELSE /\ resp' = [resp EXCEPT ![p] = Success]
            /\ pc' = [pc EXCEPT ![p] = "done"]
            /\ UNCHANGED logged

\* POST, lines 105-106: discordRes.text() gives the relay's error body
POST_errtext(p, text) ==
    /\ pc[p] = "errtext"
    /\ errText' = [errText EXCEPT ![p] = text]
    /\ logged' = [logged EXCEPT ![p] = [msg |-> "Discord error", detail |-> text]]
    /\ resp' = [resp EXCEPT ![p] = DiscordError(text)]
    /\ pc' = [pc EXCEPT ![p] = "done"]
    /\ UNCHANGED <<variant, env, RATE_LIMIT, clock, ticks, nreq, contentType, ip,
                   body, calls, stages, tsRes, cleanMsg, discordRes, rlLog>>

\* POST, lines 105 and 111-114: discordRes.text() rejects
POST_errtext_throws(p) ==
    /\ pc[p] = "errtext"
    /\ logged' = [logged EXCEPT ![p] =
                     [msg |-> "contact route error", detail |-> NoText]]
    /\ resp' = [resp EXCEPT ![p] = ServerError]
    /\ pc' = [pc EXCEPT ![p] = "done"]
    /\ UNCHANGED <<variant, env, RATE_LIMIT, clock, ticks, nreq, contentType, ip,
                   body, calls, stages, tsRes, cleanMsg, discordRes, errText, rlLog>>

\* GET, lines 135-139
GET(p) ==
    /\ Fresh(p)
    /\ resp' = [resp EXCEPT ![p] = MethodNotAllowed]
    /\ pc' = [pc EXCEPT ![p] = "done"]
    /\ contentType' = [contentType EXCEPT ![p] = <<>>]
    /\ ip' = [ip EXCEPT ![p] = Sentinel]
    /\ calls' = [calls EXCEPT ![p] = <<>>]
    /\ stages' = [stages EXCEPT ![p] = <<>>]
    /\ UNCHANGED <<variant, env, RATE_LIMIT, clock, ticks, rlLog>>

\* OPTIONS, lines 118-124 (route.js only)
OPTIONS(p) ==
    /\ variant = "route.js"
    /\ Fresh(p)
    /\ resp' = [resp EXCEPT ![p] = OptionsResponse]
    /\ pc' = [pc EXCEPT ![p] = "done"]
    /\ contentType' = [contentType EXCEPT ![p] = <<>>]
    /\ ip' = [ip EXCEPT ![p] = Sentinel]
    /\ calls' = [calls EXCEPT ![p] = <<>>]
    /\ stages' = [stages EXCEPT ![p] = <<>>]
    /\ UNCHANGED <<variant, env, RATE_LIMIT, clock, ticks, rlLog>>

\* Every request, body and outcome of a collaborator the model knows
Next ==
    \/ \E d \in TickSteps : Tick(d)
    \/ \E p \in Procs, ct \in ContentTypes, xff \in ForwardedFor : POST_begin(p, ct, xff)
    \/ \E p \in Procs, b \in Bodies : POST_json(p, b)
    \/ \E p \in Procs, r \in TsOutcomes : POST_verified(p, r)
    \/ \E p \in Procs, r \in DiscordOutcomes : POST_relayed(p, r)
    \/ \E p \in Procs, t \in ErrTexts : POST_errtext(p, t)
    \/ \E p \in Procs : POST_errtext_throws(p)
    \/ \E p \in Procs : GET(p)
    \/ \E p \in Procs : OPTIONS(p)

Spec == Init /\ [][Next]_vars

----------------------------------------------------------------------------
(* The rate limiter, one request at a time: two callers and the clock, one  *)
(* deployment; every admitted request carries the same well-formed          *)
(* submission and runs on through its awaits before the next one arrives.   *)

GoodBody == Obj(Str(<<"h", "i">>), Token)

TsSuccess == [throws |-> FALSE, success |-> TRUE]

DiscordOk == [throws |-> FALSE, ok |-> TRUE]

InitLimiter ==
    /\ Init
    /\ variant = "route.js"
    /\ env = [FRONTEND_ORIGIN |-> "", DISCORD_BOT_TOKEN |-> "tok",
              DISCORD_CHANNEL_ID |-> "chan"]

NextLimiter ==
    \/ \E d \in TickSteps : Tick(d)
    \/ \E xff \in ForwardedFor : POST_begin("p1", <<"application/json">>, xff)
    \/ POST_json("p1", GoodBody)
    \/ POST_verified("p1", TsSuccess)
    \/ POST_relayed("p1", DiscordOk)

SpecLimiter == InitLimiter /\ [][NextLimiter]_vars

----------------------------------------------------------------------------
(* The rate limiter under concurrent invocations: requests of one caller    *)
(* arrive while earlier ones are suspended at their awaits.                 *)

NextConcurrent ==
    \/ \E d \in TickSteps : Tick(d)
    \/ \E p \in Procs : POST_begin(p, <<"application/json">>, <<" ", "7", ",", "8">>)
    \/ \E p \in Procs : POST_json(p, GoodBody)
    \/ \E p \in Procs : POST_verified(p, TsSuccess)
    \/ \E p \in Procs : POST_relayed(p, DiscordOk)

SpecConcurrent == InitLimiter /\ [][NextConcurrent]_vars

----------------------------------------------------------------------------
(* The flow of one request through the stages: every deployment, body and   *)
(* outcome, one caller, the clock standing still.                           *)

FlowContentTypes == { <<"text/plain">>, <<"application/json", "charset=utf-8">> }

NextFlow ==
    \/ \E p \in Procs, ct \in FlowContentTypes : POST_begin(p, ct, <<>>)
    \/ \E p \in Procs, b \in Bodies : POST_json(p, b)
    \/ \E p \in Procs, r \in TsOutcomes : POST_verified(p, r)
    \/ \E p \in Procs, r \in DiscordOutcomes : POST_relayed(p, r)
    \/ \E p \in Procs, t \in ErrTexts : POST_errtext(p, t)
    \/ \E p \in Procs : POST_errtext_throws(p)
    \/ \E p \in Procs : GET(p)
    \/ \E p \in Procs : OPTIONS(p)

SpecFlow == Init /\ [][NextFlow]_vars

\* the same requests, with every awaited promise settling in the end: the
\* body is read, and the two services answer or fail
Resume(p) ==
    \/ \E b \in Bodies : POST_json(p, b)
    \/ \E r \in TsOutcomes : POST_verified(p, r)
    \/ \E r \in DiscordOutcomes : POST_relayed(p, r)
    \/ \E t \in ErrTexts : POST_errtext(p, t)
    \/ POST_errtext_throws(p)

SpecFlowFair == SpecFlow /\ \A p \in Procs : WF_vars(Resume(p))

----------------------------------------------------------------------------
(* Requests that are admitted and then fail: one caller, one invocation at  *)
(* a time, the clock moving.  The body is malformed, lacks the token, holds *)
(* a blank message or is well-formed; verification fails, succeeds or       *)
(* breaks; the configuration is present or lacks the token; and the relay   *)
(* never accepts.  No request is answered 200.                              *)

FailingBodies ==
    { JsonThrow, Obj(Str(<<"h", "i">>), Undefined), Obj(Str(<<" ">>), Token), GoodBody }

RelayFailures == DiscordOutcomes \ {DiscordOk}

InitFailing ==
    /\ Init
    /\ variant = "route.js"
    /\ env.FRONTEND_ORIGIN = ""
    /\ env.DISCORD_CHANNEL_ID # ""

NextFailing ==
    \/ \E d \in TickSteps : Tick(d)
    \/ POST_begin("p1", <<"application/json">>, <<>>)
    \/ \E b \in FailingBodies : POST_json("p1", b)
    \/ \E r \in TsOutcomes : POST_verified("p1", r)
    \/ \E r \in RelayFailures : POST_relayed("p1", r)
    \/ \E t \in ErrTexts : POST_errtext("p1", t)
    \/ POST_errtext_throws("p1")

SpecFailing == InitFailing /\ [][NextFailing]_vars

----------------------------------------------------------------------------
(* The sanitizer of lines 67-71 on its own: one deployment, one caller, the  *)
(* clock at rest; every request is a well-formed submission whose message   *)
(* is drawn from the texts below, verification succeeds and the relay       *)
(* accepts, so that every admitted request reaches the sanitizer.           *)

Alphabet == {"a", " ", "<", ">"}

MaxMsgLen == 5

\* every non-empty text over the alphabet, up to the bound
ShortMessages == UNION {[1..n -> Alphabet] : n \in 1..MaxMsgLen}

Run(n) == [i \in 1..n |-> "a"]

\* texts around the cap of 500, bare and wrapped in whitespace or a tag
LongMessages ==
    { pre \o Run(n) \o post :
        n \in {MSG_CAP - 1, MSG_CAP, MSG_CAP + 1, MSG_CAP + 100},
        pre \in {<<>>, <<" ">>, <<"<", "b", ">">>},
        post \in {<<>>, <<" ">>, <<"<">>} }

ScriptMessage ==
    <<"<", "s", "c", "r", "i", "p", "t", ">", "a", "l", "e", "r", "t",
    "(", "1", ")", "<", "/", "s", "c", "r", "i", "p", "t", ">", "h", "e",
    "l", "l", "o">>

Hello == <<"h", "e", "l", "l", "o">>

AlertHello == <<"a", "l", "e", "r", "t", "(", "1", ")", "h", "e", "l", "l", "o">>

SanitizerMessages == ShortMessages \cup LongMessages \cup {ScriptMessage}

NextSanitizer ==
    \/ POST_begin("p1", <<"application/json">>, <<>>)
    \/ \E m \in SanitizerMessages : POST_json("p1", Obj(Str(m), Token))
    \/ POST_verified("p1", TsSuccess)
    \/ POST_relayed("p1", DiscordOk)

SpecSanitizer == InitLimiter /\ [][NextSanitizer]_vars

----------------------------------------------------------------------------
(* Properties of the rate limiter *)

Last(s) == s[Len(s)]

\* the decisions taken for one caller, in order
DecisionsOf(log, caller) == SelectSeq(log, LAMBDA d : d.ip = caller)

Callers == {rlLog[i].ip : i \in 1..Len(rlLog)}

\* a step in which the rate limiter decides on a request
Decides == Len(rlLog') = Len(rlLog) + 1

Stored(map, caller) == IF caller \in DOMAIN map THEN map[caller] ELSE <<>>

\* the timestamps of s that are less than WINDOW_MS before now
Trailing(s, now) == SelectSeq(s, LAMBDA t : now - t < 10000)

\* C1: for every caller, the admitted requests whose timestamps lie in any
\* interval [s, s + WINDOW_MS) number at most MAX_REQUESTS.  It is enough to
\* look at the intervals that end at an admitted request.
C1_AtMostMaxPerWindow ==
    \A i \in 1..Len(rlLog) :
        rlLog[i].admitted =>
            Cardinality({ j \in 1..i :
                            /\ rlLog[j].admitted
                            /\ rlLog[j].ip = rlLog[i].ip
                            /\ rlLog[i].now - rlLog[j].now < 10000 }) <= 3

\* C1 witness: a caller has filled a window (three admissions less than
\* WINDOW_MS apart), was refused in it, and was admitted again later.
C1_Witness ==
    \E c \in Callers :
        LET ds == DecisionsOf(rlLog, c)
        IN  /\ Len(ds) >= 5
            /\ ds[1].admitted /\ ds[2].admitted /\ ds[3].admitted
            /\ ds[3].now - ds[1].now < 10000
            /\ ~ds[4].admitted
            /\ ds[5].admitted

\* C2: a caller's first three requests are admitted; a fourth one made less
\* than WINDOW_MS after the first is answered 429; and a request answered 429
\* leaves the whole map as it was.
C2_Step ==
    Decides =>
        LET d == Last(rlLog')
            prior == DecisionsOf(rlLog, d.ip)
        IN  /\ Len(prior) < 3 => d.admitted
            /\ (Len(prior) = 3 /\ d.now - prior[1].now < 10000) => ~d.admitted
            /\ ~d.admitted =>
                  /\ RATE_LIMIT' = RATE_LIMIT
                  /\ \E p \in Procs :
                        /\ pc[p] \in {"idle", "done"} /\ pc'[p] = "done"
                        /\ ip'[p] = d.ip
                        /\ resp'[p].status = 429
                        /\ resp'[p].error = "Too many requests"
            /\ d.admitted => \E p \in Procs : pc'[p] = "json" /\ ip'[p] = d.ip

C2_FirstThreeThenLimited == [][C2_Step]_vars

\* C2 witness: a caller's fourth request inside the window of its first was
\* refused, after three admissions, while another caller has a history too.
C2_Witness ==
    /\ Len(rlLog) >= 4
    /\ \E c \in DOMAIN RATE_LIMIT : c # Last(rlLog).ip
    /\ LET d == Last(rlLog)
           ds == DecisionsOf(rlLog, d.ip)
       IN  /\ Len(ds) = 4
           /\ ~d.admitted
           /\ d.now - ds[1].now < 10000
           /\ d.now > ds[1].now
           /\ Len(Stored(RATE_LIMIT, d.ip)) = 3
    /\ \E p \in Procs : pc[p] = "done" /\ resp[p].status = 429

\* C3: a timestamp that is WINDOW_MS old or older is not counted: a request is
\* refused exactly when MAX_REQUESTS stored timestamps are less than WINDOW_MS
\* old, so a caller with three stored timestamps is admitted again once the
\* earliest of them is WINDOW_MS old, and that timestamp is then dropped.
C3_Step ==
    Decides =>
        LET d == Last(rlLog')
            h == Stored(RATE_LIMIT, d.ip)
            after == Stored(RATE_LIMIT', d.ip)
        IN  /\ d.admitted <=> Len(Trailing(h, d.now)) < 3
            /\ (Len(h) = 3 /\ d.now - h[1] >= 10000) =>
                  /\ d.admitted
                  /\ \A i \in 1..Len(after) : d.now - after[i] < 10000

C3_WindowSlides == [][C3_Step]_vars

\* C3 witness: three admissions, a refusal, then an admission made exactly
\* WINDOW_MS after the first admission.
C3_Witness ==
    \E c \in Callers :
        LET ds == DecisionsOf(rlLog, c)
        IN  /\ Len(ds) >= 5
            /\ ds[1].admitted /\ ds[2].admitted /\ ds[3].admitted
            /\ ~ds[4].admitted
            /\ ds[5].admitted
            /\ ds[5].now - ds[1].now = 10000
            /\ ds[5] = Last(rlLog)

\* C4: after every access, admitted or refused, the caller's stored sequence
\* holds only timestamps less than WINDOW_MS before the access, in
\* non-decreasing order, and at most MAX_REQUESTS of them.  (The map changes
\* only in an access, so the state after the last access is every state.)
C4_StoredInWindowSorted ==
    rlLog # <<>> =>
        LET d == Last(rlLog)
            s == Stored(RATE_LIMIT, d.ip)
        IN  /\ d.ip \in DOMAIN RATE_LIMIT
            /\ Len(s) <= 3
            /\ \A i \in 1..Len(s) : s[i] <= d.now /\ d.now - s[i] < 10000
            /\ \A i \in 1..Len(s) - 1 : s[i] <= s[i + 1]

\* C4 witness: the last access was refused, after an earlier access of the
\* same caller had pruned a timestamp; the stored timestamps differ.
C4_Witness ==
    /\ rlLog # <<>>
    /\ LET d == Last(rlLog)
           s == Stored(RATE_LIMIT, d.ip)
           ds == DecisionsOf(rlLog, d.ip)
       IN  /\ ~d.admitted
           /\ Len(s) = 3
           /\ s[1] < s[3]
           /\ \E i \in 1..Len(ds) : ds[i].admitted /\ ds[i].now < s[1]

\* C5: with invocations of one caller suspended at their awaits while others
\* start, no update of the caller's history is lost: after each access the
\* stored sequence is exactly the admitted timestamps less than WINDOW_MS
\* before that access, in order, and so never more than MAX_REQUESTS.
C5_NoLostUpdate ==
    \A c \in Callers \cup DOMAIN RATE_LIMIT :
        LET ds == DecisionsOf(rlLog, c)
            adm == SelectSeq(ds, LAMBDA d : d.admitted)
            times == [i \in 1..Len(adm) |-> adm[i].now]
        IN  /\ ds # <<>>
            /\ Stored(RATE_LIMIT, c) = Trailing(times, Last(ds).now)
            /\ Len(Stored(RATE_LIMIT, c)) <= 3

\* C5 witness: two invocations of one caller are suspended at different
\* awaits, a third request of that caller has been admitted and a fourth
\* refused in between; all three admissions are in the stored history.
C5_Witness ==
    /\ pc["p1"] = "relay"
    /\ pc["p2"] = "json"
    /\ ip["p1"] = ip["p2"]
    /\ Len(Stored(RATE_LIMIT, ip["p1"])) = 3
    /\ \E i \in 1..Len(rlLog) : ~rlLog[i].admitted

----------------------------------------------------------------------------
(* Properties of the flow of a request *)

CallsTo(p, service) == SelectSeq(calls[p], LAMBDA c : c.to = service)

IsPrefix(s, t) == Len(s) <= Len(t) /\ s = SubSeq(t, 1, Len(s))

WhitespaceOrTagsOnly(p) ==
    /\ body[p].type = "object"
    /\ body[p].message.type = "string"
    /\ body[p].message.str # <<>>
    /\ body[p].turnstileToken.type = "string"
    /\ body[p].turnstileToken.str # <<>>
    /\ body[p].message.str \in {<<" ">>, <<"<", "b", ">">>}

\* C6 as stated: the sanitizer and its EmptyMessage rejection run before the
\* verification call, so a request rejected as structurally invalid (status
\* 400, an empty sanitized message included) has caused no external call.
C6_RejectedBeforeAnyCall ==
    \A p \in Procs :
        (pc[p] = "done" /\ resp[p].status = 400) => calls[p] = <<>>

\* C6 as amended: the stages run in the order validator, rate limiter, body
\* parser, verification, sanitizer, relay.  A request rejected for its content
\* type, by the rate limiter, for malformed JSON or for missing fields has
\* caused no external call; a request with a string message and a token
\* always causes the verification call, and one rejected for an empty
\* sanitized message has caused exactly that call and no relay call.
C6_StageOrder ==
    \A p \in Procs :
        /\ IsPrefix(stages[p],
                    <<"validate", "ratelimit", "parse", "verify", "sanitize", "relay">>)
        /\ IsPrefix([i \in 1..Len(calls[p]) |-> calls[p][i].to],
                    <<"turnstile", "discord">>)
        /\ resp[p].error \in {"Invalid content type", "Too many requests",
                               "Invalid JSON", "Missing fields"}
              => calls[p] = <<>>
        /\ resp[p].error = "Empty message"
              => /\ Len(calls[p]) = 1
                 /\ calls[p][1].to = "turnstile"
                 /\ tsRes[p].settled /\ tsRes[p].success
        /\ WhitespaceOrTagsOnly(p)
              => /\ Len(calls[p]) = 1
                 /\ calls[p][1].to = "turnstile"
                 /\ resp[p].error # "Missing fields"

\* C6 witness: a request whose message is only whitespace was verified
\* successfully and then rejected as empty.
C6_Witness ==
    \E p \in Procs :
        /\ pc[p] = "done"
        /\ body[p].message.str = <<" ">>
        /\ resp[p].status = 400 /\ resp[p].error = "Empty message"
        /\ Len(calls[p]) = 1
        /\ stages[p] = <<"validate", "ratelimit", "parse", "verify", "sanitize">>

\* C7: a body with a non-empty string message and no turnstileToken is
\* answered 400 "Missing fields", and the invocation issues neither the
\* verification call nor the relay call.
C7_MissingTokenNoCalls ==
    \A p \in Procs :
        ( /\ body[p].type = "object"
          /\ body[p].message.type = "string"
          /\ body[p].message.str # <<>>
          /\ body[p].turnstileToken.type = "undefined" )
        => /\ pc[p] = "done"
           /\ resp[p].status = 400
           /\ resp[p].error = "Missing fields"
           /\ calls[p] = <<>>

\* C7 witness: such a request has been answered.
C7_Witness ==
    \E p \in Procs :
        /\ body[p].type = "object"
        /\ body[p].message = Str(<<"h", "i">>)
        /\ body[p].turnstileToken.type = "undefined"
        /\ resp[p].status = 400
        /\ stages[p] = <<"validate", "ratelimit", "parse">>

\* C8: when the verification answer carries no truthy success, the request
\* is answered 403 "Bot detected" and no relay call is issued for it.
C8_FailedVerificationNoRelay ==
    \A p \in Procs :
        (tsRes[p].settled /\ ~tsRes[p].throws /\ ~tsRes[p].success)
        => /\ pc[p] = "done"
           /\ resp[p].status = 403
           /\ resp[p].error = "Bot detected"
           /\ CallsTo(p, "discord") = <<>>
           /\ ~discordRes[p].settled

\* C8 witness: a request with a sendable message failed verification.
C8_Witness ==
    \E p \in Procs :
        /\ tsRes[p].settled /\ ~tsRes[p].throws /\ ~tsRes[p].success
        /\ body[p].message = Str(<<"h", "i">>)
        /\ ~EnvMissing
        /\ resp[p].status = 403

RelayRefused(p) ==
    discordRes[p].settled /\ ~discordRes[p].throws /\ ~discordRes[p].ok

\* C9 as stated: a non-2xx status from the relay endpoint is answered 502.
C9_RelayFailureIs502 ==
    \A p \in Procs :
        (RelayRefused(p) /\ pc[p] = "done") => resp[p].status = 502

\* C9 as amended: a non-2xx status from the relay endpoint is answered 502
\* "Discord error" when the relay's error body could be read and 500 "Server
\* error" when reading it failed; in both cases the response is a fixed value,
\* the same for every relay error body, and nothing of that body is in it.
C9_RelayErrorNotEchoed ==
    \A p \in Procs :
        (RelayRefused(p) /\ pc[p] = "done") =>
            /\ resp[p].type = "json" /\ ~resp[p].ok
            /\ IF errText[p] # Absent
               THEN resp[p].status = 502 /\ resp[p].error = "Discord error"
               ELSE resp[p].status = 500 /\ resp[p].error = "Server error"
            /\ errText[p] # Absent =>
                  /\ resp[p].error # errText[p]
                  /\ \A h \in HeaderNames : resp[p].headers[h] # errText[p]
            /\ \A q \in Procs :
                  ( /\ RelayRefused(q) /\ pc[q] = "done"
                    /\ (errText[q] = Absent <=> errText[p] = Absent) )
                  => resp[q] = resp[p]

\* C9 witness: two requests were refused by the relay with different error
\* bodies, both bodies were logged, and both requests have been answered.
C9_Witness ==
    /\ RelayRefused("p1") /\ RelayRefused("p2")
    /\ pc["p1"] = "done" /\ pc["p2"] = "done"
    /\ errText["p1"] # Absent /\ errText["p2"] # Absent
    /\ errText["p1"] # errText["p2"]
    /\ logged["p1"].detail = errText["p1"]
    /\ logged["p2"].detail = errText["p2"]

\* C10: in route.js every response of POST, GET and OPTIONS carries
\* Access-Control-Allow-Origin with the configured origin ("*" when none is
\* configured), Access-Control-Allow-Methods "POST, OPTIONS" and
\* Access-Control-Allow-Headers "Content-Type".
C10_EveryResponseHasCors ==
    variant = "route.js" =>
        \A p \in Procs :
            resp[p] # NoResponse =>
                /\ resp[p].headers["Access-Control-Allow-Origin"] =
                      (IF env.FRONTEND_ORIGIN = "" THEN "*" ELSE env.FRONTEND_ORIGIN)
                /\ resp[p].headers["Access-Control-Allow-Methods"] = "POST, OPTIONS"
                /\ resp[p].headers["Access-Control-Allow-Headers"] = "Content-Type"

\* C10 witness: under a configured origin, one invocation ended in the
\* catch-all and another answered an OPTIONS preflight.
C10_Witness ==
    /\ variant = "route.js"
    /\ env.FRONTEND_ORIGIN = "https://mao.example"
    /\ resp["p1"].status = 500 /\ resp["p1"].error = "Server error"
    /\ resp["p2"].status = 204

----------------------------------------------------------------------------
(* Properties of the sanitizer *)

\* a substring matching <[^>]*> : a "<" with a ">" somewhere after it
HasTag(s) == \E i \in 1..Len(s) : \E j \in (i+1)..Len(s) : s[i] = "<" /\ s[j] = ">"

\* the message of the submission the invocation is working on
MessageOf(p) == body[p].message.str

\* C11: whatever the message, the sanitized text contains no substring
\* matching <[^>]*> and is at most 500 characters plus the marker long.
C11_NoTagAndBounded ==
    \A p \in Procs :
        cleanMsg[p].done =>
            /\ ~HasTag(cleanMsg[p].str)
            /\ Len(cleanMsg[p].str) <= 500 + Len(<<" ", ".", ".", ".", "[", "t", "r", "u",
                                                   "n", "c", "a", "t", "e", "d", "]">>)

\* a message of a tag, 501 letters and an unclosed "<" has been sanitized: the
\* tag is gone and the text is cut at the cap
C11_Witness ==
    /\ cleanMsg["p1"].done
    /\ MessageOf("p1") = <<"<", "b", ">">> \o Run(501) \o <<"<">>
    /\ Len(cleanMsg["p1"].str) = 515
    /\ \A i \in 1..500 : cleanMsg["p1"].str[i] = "a"

\* C12, as stated: the sanitizer maps <script>alert(1)</script>hello to hello.
C12_ScriptToHello ==
    \A p \in Procs :
        (cleanMsg[p].done /\ MessageOf(p) = ScriptMessage) => cleanMsg[p].str = Hello

\* C12, amended: the two tags are removed and the text between them stays;
\* the sanitizer maps <script>alert(1)</script>hello to alert(1)hello.
C12_ScriptToAlertHello ==
    \A p \in Procs :
        (cleanMsg[p].done /\ MessageOf(p) = ScriptMessage) => cleanMsg[p].str = AlertHello

C12_Witness ==
    /\ cleanMsg["p1"].done
    /\ MessageOf("p1") = ScriptMessage
    /\ Len(cleanMsg["p1"].str) = 13
    /\ resp["p1"].status = 200

\* a text made of whitespace and of substrings matching <[^>]*> only
RECURSIVE OnlySpaceAndTags(_)
OnlySpaceAndTags(s) ==
    IF s = <<>> THEN TRUE
    ELSE IF s[1] = " " THEN OnlySpaceAndTags(Tail(s))
    ELSE IF s[1] = "<" /\ \E j \in 2..Len(s) : s[j] = ">"
         THEN LET j == CHOOSE k \in 2..Len(s) :
                           s[k] = ">" /\ \A m \in 2..(k-1) : s[m] # ">"
              IN  OnlySpaceAndTags(SubSeq(s, j + 1, Len(s)))
         ELSE FALSE

\* C13, as stated: a message made only of whitespace and tag-like substrings,
\* in any arrangement, sanitizes to the empty text and, verification having
\* succeeded, the request is answered 400 Empty message.
C13_SpaceAndTagsRejected ==
    \A p \in Procs :
        (cleanMsg[p].done /\ OnlySpaceAndTags(MessageOf(p))) =>
            /\ cleanMsg[p].str = <<>>
            /\ resp[p].status = 400
            /\ resp[p].error = "Empty message"

\* the message after trim() and the removal of the tags
Stripped(p) == StripTags(Trim(MessageOf(p)))

\* C14: when the trimmed, tag-stripped message is longer than 500 characters
\* the sanitized text is its first 500 characters followed by the marker
\* " ...[truncated]"; otherwise it is that message, unshortened and unmarked.
\* 600 letters a give 500 letters a and the marker.
C14_CapAt500 ==
    \A p \in Procs :
        cleanMsg[p].done =>
            /\ Len(Stripped(p)) > 500 =>
                   cleanMsg[p].str =
                       SubSeq(Stripped(p), 1, 500)
                           \o <<" ", ".", ".", ".", "[", "t", "r", "u", "n", "c", "a",
                                "t", "e", "d", "]">>
            /\ Len(Stripped(p)) <= 500 => cleanMsg[p].str = Stripped(p)
            /\ MessageOf(p) = [i \in 1..600 |-> "a"] =>
                   /\ Len(cleanMsg[p].str) = 515
                   /\ \A i \in 1..500 : cleanMsg[p].str[i] = "a"
                   /\ cleanMsg[p].str[501] = " " /\ cleanMsg[p].str[515] = "]"

\* 600 letters a have been sanitized and relayed
C14_Witness ==
    /\ cleanMsg["p1"].done
    /\ MessageOf("p1") = [i \in 1..600 |-> "a"]
    /\ Len(CallsTo("p1", "discord")) = 1
    /\ Len(CallsTo("p1", "discord")[1].content) = 515

----------------------------------------------------------------------------
(* Properties of the later stages *)

\* the invocation is a POST that has returned
Answered(p) == pc[p] = "done" /\ stages[p] # <<>>

Verified(p) == tsRes[p].settled /\ ~tsRes[p].throws /\ tsRes[p].success

ConfigMissing == env.DISCORD_BOT_TOKEN = "" \/ env.DISCORD_CHANNEL_ID = ""

\* C15, as stated: with the relay credential or the destination identifier
\* absent, a request that has passed verification is answered 500
\* ServerMisconfigured.
C15_VerifiedIsMisconfigured ==
    \A p \in Procs :
        (ConfigMissing /\ Answered(p) /\ Verified(p)) =>
            resp[p].status = 500 /\ resp[p].error = "Server misconfig"

\* C15, amended: with the relay credential or the destination identifier
\* absent, a request that has passed verification and whose sanitized message
\* is not empty is answered 500 ServerMisconfigured and no relay call is
\* issued; the configuration is looked at only then, so a request that fails
\* before keeps its own answer: 400, 429 or 403, or the 500 "Server error" of
\* a verification call that failed in transport.
C15_MisconfigLate ==
    \A p \in Procs :
        Answered(p) =>
            /\ (ConfigMissing /\ Verified(p) /\ cleanMsg[p].str # <<>>) =>
                   /\ resp[p].status = 500 /\ resp[p].error = "Server misconfig"
                   /\ CallsTo(p, "discord") = <<>>
            /\ resp[p].error = "Server misconfig" =>
                   /\ ConfigMissing
                   /\ Verified(p)
                   /\ cleanMsg[p].done /\ cleanMsg[p].str # <<>>
                   /\ Len(calls[p]) = 1 /\ calls[p][1].to = "turnstile"
            /\ (ConfigMissing /\ ~(Verified(p) /\ cleanMsg[p].str # <<>>)) =>
                   \/ resp[p].status \in {400, 429, 403}
                   \/ /\ tsRes[p].settled /\ tsRes[p].throws
                      /\ resp[p].status = 500 /\ resp[p].error = "Server error"

\* with the credential absent, one verified request was answered 500 Server
\* misconfig without a relay call while a request whose verification failed
\* was answered 403
C15_Witness ==
    /\ ConfigMissing
    /\ Answered("p1") /\ Verified("p1")
    /\ resp["p1"].status = 500 /\ resp["p1"].error = "Server misconfig"
    /\ Len(calls["p1"]) = 1
    /\ Answered("p2") /\ tsRes["p2"].settled /\ ~tsRes["p2"].success
    /\ resp["p2"].status = 403

\* the statuses a POST may be answered with
PostStatuses == {200, 400, 403, 429, 500, 502}

IsServerError(r) == r.type = "json" /\ r.status = 500 /\ r.error = "Server error"

\* the invocation is a POST that is waiting on a promise
InFlight(p) == pc[p] \notin {"idle", "done"}

C16_OneJsonResponse ==
    \A p \in Procs :
        /\ InFlight(p) => resp[p].type = "none"
        /\ Answered(p) =>
               /\ resp[p].type = "json"
               /\ resp[p].status \in PostStatuses
               /\ resp[p].ok = (resp[p].status = 200)
        /\ (tsRes[p].settled /\ tsRes[p].throws) =>
               Answered(p) /\ IsServerError(resp[p])
        /\ (discordRes[p].settled /\ discordRes[p].throws) =>
               Answered(p) /\ IsServerError(resp[p])
        /\ (RelayRefused(p) /\ Answered(p) /\ errText[p] = "<absent>") =>
               IsServerError(resp[p])

\* a response, once returned, stays as it is until the next request
C16_ResponseFinal ==
    \A p \in Procs :
        (Answered(p) /\ nreq' = nreq) => (resp'[p] = resp[p] /\ pc'[p] = "done")

\* C16: every POST invocation ends with exactly one JSON response whose
\* status is one of 200, 400, 403, 429, 500, 502: none while it waits, one
\* when it has returned, unchanged afterwards, and, the awaited promises
\* settling, it does return.  A verification call or a relay call that fails
\* in transport, and a relay error body that cannot be read, are answered 500
\* with the error "Server error".
C16_AlwaysOneResponse ==
    /\ []C16_OneJsonResponse
    /\ [][C16_ResponseFinal]_vars
    /\ \A p \in Procs : InFlight(p) ~> Answered(p)

\* one invocation was answered 500 Server error after its verification call
\* failed in transport, the other after its relay call did
C16_Witness ==
    /\ tsRes["p1"].settled /\ tsRes["p1"].throws
    /\ IsServerError(resp["p1"])
    /\ discordRes["p2"].settled /\ discordRes["p2"].throws
    /\ IsServerError(resp["p2"])

\* the invocation is a POST whose content-type header holds no application/json
NotJson(ctype, stage) ==
    stage # <<>> /\ \A i \in 1..Len(ctype) : ctype[i] # "application/json"

C17_Answered400 ==
    \A p \in Procs :
        NotJson(contentType[p], stages[p]) =>
            /\ pc[p] = "done"
            /\ resp[p].status = 400
            /\ resp[p].error = "Invalid content type"
            /\ stages[p] = <<"validate">>
            /\ calls[p] = <<>>
            /\ ~tsRes[p].settled /\ ~discordRes[p].settled

\* the request that puts the invocation where it is leaves the rate limiter
\* alone: neither a decision nor a timestamp is added
C17_LimiterUntouched ==
    \A p \in Procs :
        ( /\ NotJson(contentType'[p], stages'[p])
          /\ <<contentType[p], stages[p], resp[p], pc[p]>>
                 # <<contentType'[p], stages'[p], resp'[p], pc'[p]>> )
        => /\ RATE_LIMIT' = RATE_LIMIT
           /\ rlLog' = rlLog
           /\ logged'[p].msg = "<absent>"

\* C17: a POST whose content-type header does not contain application/json
\* is answered 400 Invalid content type and has no side effect: the
\* rate-limit map is unchanged and the limiter is not consulted, whatever the
\* caller's standing there, and no external call is issued.
C17_ContentTypeNoSideEffect ==
    /\ []C17_Answered400
    /\ [][C17_LimiterUntouched]_vars

\* the caller is over the limit, one invocation holding the 429 that says so,
\* and a text/plain request was answered 400 Invalid content type
C17_Witness ==
    /\ Len(Stored(RATE_LIMIT, <<"0", ".", "0", ".", "0", ".", "0">>)) = 3
    /\ resp["p2"].status = 429
    /\ contentType["p1"] = <<"text/plain">>
    /\ Answered("p1")
    /\ resp["p1"].status = 400

C18_AtMostOneCallEach ==
    \A p \in Procs :
        /\ Len(CallsTo(p, "turnstile")) <= 1
        /\ Len(CallsTo(p, "discord")) <= 1
        /\ Len(calls[p]) = Len(CallsTo(p, "turnstile")) + Len(CallsTo(p, "discord"))

\* once a failure has been returned, nothing more is sent for that request
C18_FailureFinal ==
    \A p \in Procs :
        (Answered(p) /\ resp[p].status # 200 /\ nreq' = nreq) =>
            /\ calls'[p] = calls[p]
            /\ resp'[p] = resp[p]
            /\ tsRes'[p] = tsRes[p]
            /\ discordRes'[p] = discordRes[p]

\* C18: no stage is retried: within one POST invocation the verification
\* call is issued at most once and the relay call at most once, and a failure
\* response is final for its request, no outbound call following it.
C18_NoRetry ==
    /\ []C18_AtMostOneCallEach
    /\ [][C18_FailureFinal]_vars

\* the relay refused one request, answered 502 after one call to each service;
\* verification failed for the other, answered 403 after its one call
C18_Witness ==
    /\ Answered("p1") /\ resp["p1"].status = 502
    /\ Len(CallsTo("p1", "turnstile")) = 1 /\ Len(CallsTo("p1", "discord")) = 1
    /\ Answered("p2") /\ resp["p2"].status = 403
    /\ Len(calls["p2"]) = 1

----------------------------------------------------------------------------
(* Properties across the stages *)

\* the admitted decisions for the same caller less than WINDOW_MS before
\* decision i
SlotsTaken(i) ==
    { j \in 1..(i-1) : /\ rlLog[j].admitted
                       /\ rlLog[j].ip = rlLog[i].ip
                       /\ rlLog[i].now - rlLog[j].now < 10000 }

C19_SlotsCountFailures ==
    /\ \A p \in Procs : Answered(p) => resp[p].status \in {400, 403, 429, 500, 502}
    /\ \A i \in 1..Len(rlLog) : rlLog[i].admitted <=> Cardinality(SlotsTaken(i)) < 3
    /\ \A i \in 1..Len(rlLog) :
           (rlLog[i].admitted /\ \A j \in (i+1)..Len(rlLog) : ~rlLog[j].admitted) =>
               /\ Stored(RATE_LIMIT, rlLog[i].ip) # <<>>
               /\ Last(Stored(RATE_LIMIT, rlLog[i].ip)) = rlLog[i].now

\* the stages after the rate limiter never give a slot back
C19_SlotKept == ~Decides => RATE_LIMIT' = RATE_LIMIT

\* C19: a request admitted by the rate limiter takes one of the caller's
\* MAX_REQUESTS slots even when it is rejected later on: where every
\* admitted request fails, a request is refused exactly when three admitted
\* ones lie less than WINDOW_MS before it, its timestamp stays in the map
\* whatever the answer, and so three failing requests inside WINDOW_MS make the
\* next one a 429.
C19_FailedRequestsConsumeSlots ==
    /\ []C19_SlotsCountFailures
    /\ [][C19_SlotKept]_vars

\* three requests were admitted at different times inside one window, every
\* one of them rejected later on, and the fourth is answered 429
C19_Witness ==
    /\ Len(rlLog) = 4
    /\ rlLog[1].admitted /\ rlLog[2].admitted /\ rlLog[3].admitted
    /\ rlLog[1].now < rlLog[3].now
    /\ ~rlLog[4].admitted
    /\ rlLog[4].now - rlLog[1].now < 10000
    /\ rlLog[4].now > rlLog[3].now
    /\ Answered("p1") /\ resp["p1"].status = 429

\* C20: a POST is answered 200 {ok: true} only if, in that invocation, the
\* content type held application/json, the rate limiter admitted the request,
\* the body had a string message and a token, the verification call returned
\* success, the sanitized message was not empty, the credential and the
\* destination were configured, and exactly one relay call was issued and
\* came back ok.
C20_SuccessOnlyIfAllStagesPassed ==
    \A p \in Procs :
        (stages[p] # <<>> /\ resp[p].status = 200) =>
            /\ resp[p].type = "json" /\ resp[p].ok
            /\ pc[p] = "done"
            /\ ~NotJson(contentType[p], stages[p])
            /\ \E i \in 1..Len(rlLog) : rlLog[i].admitted /\ rlLog[i].ip = ip[p]
            /\ Stored(RATE_LIMIT, ip[p]) # <<>>
            /\ body[p].type = "object"
            /\ body[p].message.type = "string" /\ body[p].message.str # <<>>
            /\ body[p].turnstileToken.type # "undefined"
            /\ body[p].turnstileToken.str # <<>>
            /\ Verified(p)
            /\ cleanMsg[p].done /\ cleanMsg[p].str # <<>>
            /\ ~ConfigMissing
            /\ Len(calls[p]) = 2
            /\ calls[p][1].to = "turnstile" /\ calls[p][2].to = "discord"
            /\ calls[p][2].content = cleanMsg[p].str
            /\ discordRes[p].settled /\ ~discordRes[p].throws /\ discordRes[p].ok

\* a request went through every stage and was answered 200
C20_Witness ==
    \E p \in Procs :
        /\ Answered(p)
        /\ resp[p].status = 200 /\ resp[p].ok
        /\ Len(calls[p]) = 2
        /\ discordRes[p].ok

====
